---- MODULE Spec2Model ----
(***************************************************************************)
(* puppetmaster: frame-count input handling.  Three handlers map raw       *)
(* inputs to controls and count, per control, the frames it has been held: *)
(*   EventInputHandler    (src/src/event.rs)   key-down / key-up events    *)
(*   PollingInputHandler  (src/src/polling.rs) a collection of held inputs *)
(*   QueryInputHandler    (src/src/query.rs)   an is_pressed predicate     *)
(* A handler is a record of its fields.  An AHashMap is a function whose   *)
(* DOMAIN is the set of keys present, an AHashSet is a set, a Vec is a     *)
(* sequence.                                                               *)
(***************************************************************************)
EXTENDS Integers, Sequences, FiniteSets, TLC

\* ------------------------------------------------------------------ bounds

\* The input type I and the control type C of the handlers.
Inputs == {"A", "B", "C"}
Controls == {"Up", "Down"}

\* Longest sequence of (input, control) pairs given to new_with_controls.
MaxPairs == 3
\* Longest collection of pressed inputs given to PollingInputHandler::update.
MaxPressed == 2
\* update is not called once some press time has reached MaxTime.
MaxTime == 3
\* Most notifications recorded between two updates (SpecBurst).
MaxEvents == 3
\* Width of the press-time counter (u32 in the source, scaled down).
TimeBits == 4

Modulus == 2 ^ TimeBits

\* ------------------------------------------------------- maps and vectors

\* AHashMap::new()
EmptyMap == [x \in {} |-> 0]

\* AHashMap::insert: the value of an existing key is overwritten.
MapInsert(m, k, v) == [x \in (DOMAIN m) \cup {k} |-> IF x = k THEN v ELSE m[x]]

\* AHashMap::remove
MapRemove(m, k) == [x \in (DOMAIN m) \ {k} |-> m[x]]

\* The values of a map, one per key.
MapValues(m) == {m[k] : k \in DOMAIN m}

\* Vec::contains
Contains(vec, x) == \E n \in 1..Len(vec) : vec[n] = x

\* A hash map is iterated (iter(), keys(), values()) in an order the program
\* does not control and that differs from one map to the next: the orders in
\* which a map with the keys S can be iterated are all the sequences that
\* hold every key once.  Every iteration takes its order as an input.
IterOrders(S) ==
    {order \in [1..Cardinality(S) -> S] : \A k \in S : \E n \in DOMAIN order : order[n] = k}

\* Some vector that holds every element of S once, as a caller builds it.
RECURSIVE SeqOf(_)
SeqOf(S) ==
    IF S = {} THEN <<>>
    ELSE LET k == CHOOSE x \in S : TRUE IN <<k>> \o SeqOf(S \ {k})

\* u32 `+= 1`.
AddOne(t) == (t + 1) % Modulus

\* u32 `+= 1` built with overflow checks panics where AddOne wraps.
AddOneOverflows(t) == t + 1 >= Modulus

\* `map.into_iter().collect()` into an AHashMap: the pairs are inserted in
\* order, so a later pair overwrites an earlier one with the same input.
RECURSIVE CollectFrom(_, _)
CollectFrom(m, pairs) ==
    IF pairs = <<>> THEN m
    ELSE CollectFrom(MapInsert(m, Head(pairs)[1], Head(pairs)[2]), Tail(pairs))

Collect(pairs) == CollectFrom(EmptyMap, pairs)

\* `*control_time.entry(ctrl).or_default() += 1`
EntryAddOne(control_time, ctrl) ==
    MapInsert(control_time, ctrl,
              AddOne(IF ctrl \in DOMAIN control_time THEN control_time[ctrl] ELSE 0))

\* ------------------------------------------------------ EventInputHandler

event_default ==
    [control_config |-> EmptyMap, control_time |-> EmptyMap, pressed_controls |-> {}]

event_new == event_default

\* Mutant: an insert-if-absent pass, which keeps the first pair of an input.
RECURSIVE CollectKeepFirst(_, _)
CollectKeepFirst(m, pairs) ==
    IF pairs = <<>> THEN m
    ELSE CollectKeepFirst(
            IF Head(pairs)[1] \in DOMAIN m THEN m
            ELSE MapInsert(m, Head(pairs)[1], Head(pairs)[2]),
            Tail(pairs))

event_new_with_controls_keep_first(map) ==
    [control_config |-> CollectKeepFirst(EmptyMap, map), control_time |-> EmptyMap,
     pressed_controls |-> {}]

event_new_with_controls(map) ==
    [control_config |-> Collect(map), control_time |-> EmptyMap, pressed_controls |-> {}]

\* Mutant: the press time is counted when the event arrives.
event_on_input_down_eager(h, input) ==
    IF input \in DOMAIN h.control_config
    THEN [h EXCEPT !.pressed_controls = @ \cup {h.control_config[input]},
                   !.control_time = EntryAddOne(@, h.control_config[input])]
    ELSE h

event_on_input_down(h, input) ==
    IF input \in DOMAIN h.control_config
    THEN [h EXCEPT !.pressed_controls = @ \cup {h.control_config[input]}]
    ELSE h

\* Mutant: the control stays pending while another input is mapped to it.
event_on_input_up_shared(h, input) ==
    IF /\ input \in DOMAIN h.control_config
       /\ \A other \in DOMAIN h.control_config \ {input} :
            h.control_config[other] # h.control_config[input]
    THEN [h EXCEPT !.pressed_controls = @ \ {h.control_config[input]}]
    ELSE h

event_on_input_up(h, input) ==
    IF input \in DOMAIN h.control_config
    THEN [h EXCEPT !.pressed_controls = @ \ {h.control_config[input]}]
    ELSE h

event_clear_inputs(h) == [h EXCEPT !.pressed_controls = {}]

\* Mutant: a control that is not pressed keeps the press time it has
\* (`entry(control).or_insert(0)` for `insert(control, 0)`).
event_update_step_no_reset(h, control_time, control) ==
    IF control \in h.pressed_controls
    THEN EntryAddOne(control_time, control)
    ELSE IF control \in DOMAIN control_time THEN control_time
    ELSE MapInsert(control_time, control, 0)

\* The body of the loop of update, for one value of control_config.
event_update_step(h, control_time, control) ==
    IF control \in h.pressed_controls
    THEN EntryAddOne(control_time, control)
    ELSE MapInsert(control_time, control, 0)

\* `for control in self.control_config.values()`: one turn per key of
\* control_config, also when several keys hold the same control.
RECURSIVE event_update_loop(_, _, _)
event_update_loop(h, control_time, inputs) ==
    IF inputs = <<>> THEN control_time
    ELSE event_update_loop(
            h,
            event_update_step(h, control_time, h.control_config[Head(inputs)]),
            Tail(inputs))

\* update, control_config.values() going through the keys in order.
event_update(h, order) ==
    [h EXCEPT !.control_time = event_update_loop(h, h.control_time, order)]

event_press_time(h, ctrl) ==
    IF ctrl \in DOMAIN h.control_time THEN h.control_time[ctrl] ELSE 0

event_down(h, ctrl) == event_press_time(h, ctrl) >= 1

event_up(h, ctrl) == event_press_time(h, ctrl) = 0

event_clicked(h, ctrl) == event_press_time(h, ctrl) = 1

\* Mutant: one triple per control instead of one per input.
event_all_pressed_per_control(h, order) ==
    LET First(i) == \A n, m \in 1..Len(order) :
                        (order[n] = i /\ m < n) =>
                            h.control_config[order[m]] # h.control_config[i]
        firsts == SelectSeq(order, First)
    IN  [n \in 1..Len(firsts) |->
            <<firsts[n], h.control_config[firsts[n]],
              IF h.control_config[firsts[n]] \in DOMAIN h.control_time
              THEN h.control_time[h.control_config[firsts[n]]] ELSE 0>>]

\* all_pressed, collected into a vector: one (input, ctrl, presstime) per
\* entry of control_config, in the order control_config.iter() goes through
\* the keys, presstime being `control_time.get(ctrl).copied().unwrap_or(0)`.
event_all_pressed(h, order) ==
    [n \in 1..Len(order) |->
        <<order[n], h.control_config[order[n]],
          IF h.control_config[order[n]] \in DOMAIN h.control_time
          THEN h.control_time[h.control_config[order[n]]] ELSE 0>>]

\* ---------------------------------------------------- PollingInputHandler

polling_default == [control_config |-> EmptyMap, control_time |-> EmptyMap]

polling_new == polling_default

polling_new_with_controls(map) ==
    [control_config |-> Collect(map), control_time |-> EmptyMap]

polling_clear_inputs(h) == [h EXCEPT !.control_time = EmptyMap]

\* `pressed_inputs.into_iter().flat_map(|input| control_config.get(&input))
\*  .cloned().collect_vec()`: the controls of the mapped inputs, in order and
\* with repetitions; an input that is not mapped contributes nothing.
RECURSIVE polling_pressed_controls(_, _)
polling_pressed_controls(h, pressed_inputs) ==
    IF pressed_inputs = <<>> THEN <<>>
    ELSE (IF Head(pressed_inputs) \in DOMAIN h.control_config
          THEN <<h.control_config[Head(pressed_inputs)]>>
          ELSE <<>>) \o polling_pressed_controls(h, Tail(pressed_inputs))

\* Mutant: the loop has no else branch, so a control that is not pressed is
\* left as it is.
polling_update_step_no_else(pressed_controls, control_time, ctrl) ==
    IF Contains(pressed_controls, ctrl)
    THEN EntryAddOne(control_time, ctrl)
    ELSE control_time

\* Mutant: one increment for every occurrence of the control in
\* pressed_controls.
RECURSIVE polling_add_per_occurrence(_, _, _)
polling_add_per_occurrence(pressed_controls, control_time, ctrl) ==
    IF pressed_controls = <<>> THEN control_time
    ELSE polling_add_per_occurrence(
            Tail(pressed_controls),
            IF Head(pressed_controls) = ctrl THEN EntryAddOne(control_time, ctrl)
            ELSE control_time,
            ctrl)

polling_update_step_per_occurrence(pressed_controls, control_time, ctrl) ==
    IF Contains(pressed_controls, ctrl)
    THEN polling_add_per_occurrence(pressed_controls, control_time, ctrl)
    ELSE MapInsert(control_time, ctrl, 0)

\* Mutant: the test is inverted.
polling_update_step_inverted(pressed_controls, control_time, ctrl) ==
    IF ~Contains(pressed_controls, ctrl)
    THEN EntryAddOne(control_time, ctrl)
    ELSE MapInsert(control_time, ctrl, 0)

\* The body of the loop of update, for one value of control_config.
polling_update_step(pressed_controls, control_time, ctrl) ==
    IF Contains(pressed_controls, ctrl)
    THEN EntryAddOne(control_time, ctrl)
    ELSE MapInsert(control_time, ctrl, 0)

\* `for ctrl in self.control_config.values()`
RECURSIVE polling_update_loop(_, _, _, _)
polling_update_loop(h, pressed_controls, control_time, inputs) ==
    IF inputs = <<>> THEN control_time
    ELSE polling_update_loop(
            h, pressed_controls,
            polling_update_step(pressed_controls, control_time,
                                h.control_config[Head(inputs)]),
            Tail(inputs))

\* update(pressed_inputs), control_config.values() going through the keys
\* in order.
polling_update(h, pressed_inputs, order) ==
    [h EXCEPT !.control_time =
        polling_update_loop(h, polling_pressed_controls(h, pressed_inputs),
                            h.control_time, order)]

polling_press_time(h, ctrl) ==
    IF ctrl \in DOMAIN h.control_time THEN h.control_time[ctrl] ELSE 0

polling_down(h, ctrl) == polling_press_time(h, ctrl) >= 1

polling_up(h, ctrl) == polling_press_time(h, ctrl) = 0

polling_clicked(h, ctrl) == polling_press_time(h, ctrl) = 1

\* ------------------------------------------------------ QueryInputHandler

query_default == [control_config |-> EmptyMap, control_time |-> EmptyMap]

query_new == query_default

query_new_with_controls(map) ==
    [control_config |-> Collect(map), control_time |-> EmptyMap]

query_clear_inputs(h) == [h EXCEPT !.control_time = EmptyMap]

\* Mutant: `find_map` for `filter_map`: only the first input that is_pressed
\* accepts gives its control.
RECURSIVE query_pressed_controls_first(_, _, _)
query_pressed_controls_first(h, is_pressed, inputs) ==
    IF inputs = <<>> THEN <<>>
    ELSE IF is_pressed[Head(inputs)] THEN <<h.control_config[Head(inputs)]>>
    ELSE query_pressed_controls_first(h, is_pressed, Tail(inputs))

\* `control_config.iter().filter_map(..).collect_vec()`: is_pressed is asked
\* about every key of control_config; the controls of those it accepts.
\* is_pressed is a function from inputs to booleans.
RECURSIVE query_pressed_controls(_, _, _)
query_pressed_controls(h, is_pressed, inputs) ==
    IF inputs = <<>> THEN <<>>
    ELSE (IF is_pressed[Head(inputs)]
          THEN <<h.control_config[Head(inputs)]>>
          ELSE <<>>) \o query_pressed_controls(h, is_pressed, Tail(inputs))

\* The calls of is_pressed that the filter_map of update makes: one for
\* every key of control_config, each with the answer it gets.
RECURSIVE query_asked(_, _, _)
query_asked(h, is_pressed, inputs) ==
    IF inputs = <<>> THEN <<>>
    ELSE << <<Head(inputs), is_pressed[Head(inputs)]>> >>
            \o query_asked(h, is_pressed, Tail(inputs))

\* Mutant: the loop has no else branch, a control that is not pressed keeps
\* the press time it has.
query_update_step_no_else(pressed_controls, control_time, ctrl) ==
    IF Contains(pressed_controls, ctrl)
    THEN EntryAddOne(control_time, ctrl)
    ELSE control_time

\* The body of the second loop of update, for one value of control_config.
query_update_step(pressed_controls, control_time, ctrl) ==
    IF Contains(pressed_controls, ctrl)
    THEN EntryAddOne(control_time, ctrl)
    ELSE MapInsert(control_time, ctrl, 0)

\* `for ctrl in self.control_config.values()`
RECURSIVE query_update_loop(_, _, _, _)
query_update_loop(h, pressed_controls, control_time, inputs) ==
    IF inputs = <<>> THEN control_time
    ELSE query_update_loop(
            h, pressed_controls,
            query_update_step(pressed_controls, control_time,
                              h.control_config[Head(inputs)]),
            Tail(inputs))

\* update(is_pressed): control_config.iter() and then control_config.values()
\* go through the keys of the map, which stays as it is between the two, in
\* the same order.
query_update(h, is_pressed, order) ==
    [h EXCEPT !.control_time =
        query_update_loop(
            h, query_pressed_controls(h, is_pressed, order), h.control_time, order)]

\* Mutant: a control without an entry reads 1 (`unwrap_or(1)`).
query_press_time_default_one(h, ctrl) ==
    IF ctrl \in DOMAIN h.control_time THEN h.control_time[ctrl] ELSE 1

query_press_time(h, ctrl) ==
    IF ctrl \in DOMAIN h.control_time THEN h.control_time[ctrl] ELSE 0

query_down(h, ctrl) == query_press_time(h, ctrl) >= 1

query_up(h, ctrl) == query_press_time(h, ctrl) = 0

query_clicked(h, ctrl) == query_press_time(h, ctrl) = 1

\* ------------------------------------------------------- overflow checks
\* The loop of update, the same in the three handlers, as a build with
\* overflow checks runs it: `*entry += 1` panics at the largest value, the
\* loop ends there and the entries written so far stay.  pressed is the set
\* of the controls the loop finds pressed.
RECURSIVE checked_update_loop(_, _, _, _)
checked_update_loop(control_config, pressed, control_time, inputs) ==
    IF inputs = <<>> THEN [panicked |-> FALSE, control_time |-> control_time]
    ELSE LET ctrl == control_config[Head(inputs)]
             entry == IF ctrl \in DOMAIN control_time THEN control_time[ctrl] ELSE 0
         IN  IF ctrl \in pressed
             THEN IF AddOneOverflows(entry)
                  THEN [panicked |-> TRUE,
                        control_time |-> MapInsert(control_time, ctrl, entry)]
                  ELSE checked_update_loop(
                          control_config, pressed,
                          MapInsert(control_time, ctrl, entry + 1), Tail(inputs))
             ELSE checked_update_loop(
                     control_config, pressed,
                     MapInsert(control_time, ctrl, 0), Tail(inputs))

\* ------------------------------------------------------------------ state

VARIABLES
    kind,         \* which handler the program holds: "event", "polling", "query"
    event,        \* the EventInputHandler
    polling,      \* the PollingInputHandler
    query,        \* the QueryInputHandler
    op,           \* the operation called last
    after_clear,  \* the last update was called right after clear_inputs
    active,       \* the controls that were active in the last update
    before,       \* press_time of every control just before the last update
    streak,       \* per control: the updates in a row, the first one starting
                  \* at press time 0, in which it was active
    held,         \* streak as it was just before the last update
    edited,       \* control_config_mut has changed the configuration
    last_inputs,  \* the collection given to the last PollingInputHandler::update
    asked,        \* the calls of is_pressed in the last QueryInputHandler::update,
                  \* in order, each with its answer (SpecPair)
    ever_active,  \* the controls that were active in some update
    pairs,        \* the pairs given to new_with_controls (SpecNew)
    events,       \* the notifications of the current frame (SpecBurst)
    physical,     \* the inputs physically held (SpecPhysical)
    listed,       \* what all_pressed yielded, if it was the last call (SpecList)
    build,        \* how the build treats an overflow of `+= 1` (SpecLong)
    iter          \* the order in which control_config is iterated for as long as
                  \* the map is not modified (SpecList; SpecPair: that of the
                  \* QueryInputHandler)

handlers == <<kind, event, polling, query>>
history ==
    <<op, after_clear, active, before, streak, held, edited, last_inputs, asked,
      ever_active>>
vars == <<handlers, history, pairs, events, physical, listed, build, iter>>

Kinds == {"event", "polling", "query"}

PairSeqs == UNION {[1..n -> Inputs \X Controls] : n \in 0..MaxPairs}

InputSeqs == UNION {[1..n -> Inputs] : n \in 0..MaxPressed}

\* The handler the program holds, seen through the queries all three share.
control_config ==
    CASE kind = "event" -> event.control_config
      [] kind = "polling" -> polling.control_config
      [] kind = "query" -> query.control_config
      [] OTHER -> EmptyMap

press_time(ctrl) ==
    CASE kind = "event" -> event_press_time(event, ctrl)
      [] kind = "polling" -> polling_press_time(polling, ctrl)
      [] kind = "query" -> query_press_time(query, ctrl)
      [] OTHER -> 0

down(ctrl) ==
    CASE kind = "event" -> event_down(event, ctrl)
      [] kind = "polling" -> polling_down(polling, ctrl)
      [] kind = "query" -> query_down(query, ctrl)
      [] OTHER -> FALSE

up(ctrl) ==
    CASE kind = "event" -> event_up(event, ctrl)
      [] kind = "polling" -> polling_up(polling, ctrl)
      [] kind = "query" -> query_up(query, ctrl)
      [] OTHER -> TRUE

clicked(ctrl) ==
    CASE kind = "event" -> event_clicked(event, ctrl)
      [] kind = "polling" -> polling_clicked(polling, ctrl)
      [] kind = "query" -> query_clicked(query, ctrl)
      [] OTHER -> FALSE

\* The controls that have at least one input in the configuration.
Configured == MapValues(control_config)

\* The inputs of the configuration mapped to ctrl.
InputsOf(ctrl) == {i \in DOMAIN control_config : control_config[i] = ctrl}

NoTimes == [c \in Controls |-> 0]

InitHistory ==
    /\ op = "new"
    /\ after_clear = FALSE
    /\ active = {}
    /\ before = NoTimes
    /\ streak = NoTimes
    /\ held = NoTimes
    /\ edited = FALSE
    /\ last_inputs = <<>>
    /\ asked = <<>>
    /\ ever_active = {}

\* The state after construction with new() or new_with_controls(ps).
Init ==
    /\ kind \in Kinds
    /\ \E ps \in PairSeqs :
        /\ event = IF kind = "event" THEN event_new_with_controls(ps) ELSE event_default
        /\ polling = IF kind = "polling" THEN polling_new_with_controls(ps)
                     ELSE polling_default
        /\ query = IF kind = "query" THEN query_new_with_controls(ps) ELSE query_default
    /\ InitHistory
    /\ pairs = <<>>
    /\ events = <<>>
    /\ physical = {}
    /\ listed = <<>>
    /\ build = "wrapping"
    /\ iter = <<>>

\* ---------------------------------------------------------------- history

\* An operation other than update was called.
Called(name) ==
    /\ op' = name
    /\ UNCHANGED <<after_clear, active, before, held, last_inputs, asked, ever_active>>

\* update was called in a frame in which exactly the controls act were active.
Frame(act, inputs, calls) ==
    /\ op' = "update"
    /\ after_clear' = (op = "clear_inputs")
    /\ active' = act
    /\ before' = [c \in Controls |-> press_time(c)]
    /\ streak' = [c \in Controls |->
                    IF c \notin act THEN 0
                    ELSE IF streak[c] >= 1 THEN streak[c] + 1
                    ELSE IF press_time(c) = 0 THEN 1
                    ELSE 0]
    /\ held' = streak
    /\ last_inputs' = inputs
    /\ asked' = calls
    /\ ever_active' = ever_active \cup act
    /\ UNCHANGED edited

\* update is called only while every press time is below MaxTime.
CanUpdate == \A c \in Controls : press_time(c) < MaxTime

\* The controls active in an update: those with a configured input that is
\* held (event: whose control is pending; polling: that is in the collection;
\* query: that is_pressed accepts).
event_active == {c \in Configured : c \in event.pressed_controls}

polling_active(pressed_inputs) ==
    {c \in Configured :
        \E n \in 1..Len(pressed_inputs) : pressed_inputs[n] \in InputsOf(c)}

query_active(is_pressed) == {c \in Configured : \E i \in InputsOf(c) : is_pressed[i]}

\* ---------------------------------------------- EventInputHandler actions

DoEventOnInputDown(input) ==
    /\ kind = "event"
    /\ event' = event_on_input_down(event, input)
    /\ Called("on_input_down")
    /\ UNCHANGED <<kind, polling, query, streak, edited>>

DoEventOnInputUp(input) ==
    /\ kind = "event"
    /\ event' = event_on_input_up(event, input)
    /\ Called("on_input_up")
    /\ UNCHANGED <<kind, polling, query, streak, edited>>

DoEventClearInputs ==
    /\ kind = "event"
    /\ event' = event_clear_inputs(event)
    /\ Called("clear_inputs")
    /\ UNCHANGED <<kind, polling, query, streak, edited>>

DoEventUpdate ==
    /\ kind = "event"
    /\ CanUpdate
    /\ \E order \in IterOrders(DOMAIN event.control_config) :
        event' = event_update(event, order)
    /\ Frame(event_active, <<>>, <<>>)
    /\ UNCHANGED <<kind, polling, query>>

\* control_config_mut().insert(input, ctrl)
DoEventConfigInsert(input, ctrl) ==
    /\ kind = "event"
    /\ event' = [event EXCEPT !.control_config = MapInsert(@, input, ctrl)]
    /\ event' # event
    /\ Called("control_config_mut")
    /\ edited' = TRUE
    /\ UNCHANGED <<kind, polling, query, streak>>

\* control_config_mut().remove(&input)
DoEventConfigRemove(input) ==
    /\ kind = "event"
    /\ event' = [event EXCEPT !.control_config = MapRemove(@, input)]
    /\ event' # event
    /\ Called("control_config_mut")
    /\ edited' = TRUE
    /\ UNCHANGED <<kind, polling, query, streak>>

\* -------------------------------------------- PollingInputHandler actions

DoPollingClearInputs ==
    /\ kind = "polling"
    /\ polling' = polling_clear_inputs(polling)
    /\ Called("clear_inputs")
    /\ streak' = NoTimes
    /\ UNCHANGED <<kind, event, query, edited>>

DoPollingUpdate(pressed_inputs) ==
    /\ kind = "polling"
    /\ CanUpdate
    /\ \E order \in IterOrders(DOMAIN polling.control_config) :
        polling' = polling_update(polling, pressed_inputs, order)
    /\ Frame(polling_active(pressed_inputs), pressed_inputs, <<>>)
    /\ UNCHANGED <<kind, event, query>>

\* ---------------------------------------------- QueryInputHandler actions

DoQueryClearInputs ==
    /\ kind = "query"
    /\ query' = query_clear_inputs(query)
    /\ Called("clear_inputs")
    /\ streak' = NoTimes
    /\ UNCHANGED <<kind, event, polling, edited>>

DoQueryUpdate(is_pressed) ==
    /\ kind = "query"
    /\ CanUpdate
    /\ \E order \in IterOrders(DOMAIN query.control_config) :
        query' = query_update(query, is_pressed, order)
    /\ Frame(query_active(is_pressed), <<>>, <<>>)
    /\ UNCHANGED <<kind, event, polling>>

\* control_config_mut().insert(input, ctrl)
DoQueryConfigInsert(input, ctrl) ==
    /\ kind = "query"
    /\ query' = [query EXCEPT !.control_config = MapInsert(@, input, ctrl)]
    /\ query' # query
    /\ Called("control_config_mut")
    /\ edited' = TRUE
    /\ UNCHANGED <<kind, event, polling, streak>>

\* control_config_mut().remove(&input)
DoQueryConfigRemove(input) ==
    /\ kind = "query"
    /\ query' = [query EXCEPT !.control_config = MapRemove(@, input)]
    /\ query' # query
    /\ Called("control_config_mut")
    /\ edited' = TRUE
    /\ UNCHANGED <<kind, event, polling, streak>>

\* ------------------------------------------------------------------- Spec
\* One handler, built by new_with_controls, under every operation of its
\* interface in any order.

EventOnInputDown(input) == DoEventOnInputDown(input) /\ UNCHANGED <<pairs, events, physical, listed, build, iter>>
EventOnInputUp(input) == DoEventOnInputUp(input) /\ UNCHANGED <<pairs, events, physical, listed, build, iter>>
EventClearInputs == DoEventClearInputs /\ UNCHANGED <<pairs, events, physical, listed, build, iter>>
EventUpdate == DoEventUpdate /\ UNCHANGED <<pairs, events, physical, listed, build, iter>>
EventConfigInsert(input, ctrl) ==
    DoEventConfigInsert(input, ctrl) /\ UNCHANGED <<pairs, events, physical, listed, build, iter>>
EventConfigRemove(input) == DoEventConfigRemove(input) /\ UNCHANGED <<pairs, events, physical, listed, build, iter>>
PollingClearInputs == DoPollingClearInputs /\ UNCHANGED <<pairs, events, physical, listed, build, iter>>
PollingUpdate(pressed_inputs) ==
    DoPollingUpdate(pressed_inputs) /\ UNCHANGED <<pairs, events, physical, listed, build, iter>>
QueryClearInputs == DoQueryClearInputs /\ UNCHANGED <<pairs, events, physical, listed, build, iter>>
QueryUpdate(is_pressed) == DoQueryUpdate(is_pressed) /\ UNCHANGED <<pairs, events, physical, listed, build, iter>>
QueryConfigInsert(input, ctrl) ==
    DoQueryConfigInsert(input, ctrl) /\ UNCHANGED <<pairs, events, physical, listed, build, iter>>
QueryConfigRemove(input) == DoQueryConfigRemove(input) /\ UNCHANGED <<pairs, events, physical, listed, build, iter>>

Next ==
    \/ \E input \in Inputs : EventOnInputDown(input)
    \/ \E input \in Inputs : EventOnInputUp(input)
    \/ EventClearInputs
    \/ EventUpdate
    \/ \E input \in Inputs, ctrl \in Controls : EventConfigInsert(input, ctrl)
    \/ \E input \in Inputs : EventConfigRemove(input)
    \/ PollingClearInputs
    \/ \E pressed_inputs \in InputSeqs : PollingUpdate(pressed_inputs)
    \/ QueryClearInputs
    \/ \E is_pressed \in [Inputs -> BOOLEAN] : QueryUpdate(is_pressed)
    \/ \E input \in Inputs, ctrl \in Controls : QueryConfigInsert(input, ctrl)
    \/ \E input \in Inputs : QueryConfigRemove(input)

Spec == Init /\ [][Next]_vars

\* ---------------------------------------------------------------- SpecNew
\* Construction alone: the program holds a sequence of pairs and builds one
\* of the handlers from it.

InitNew ==
    /\ kind \in Kinds
    /\ pairs \in PairSeqs
    /\ event = event_default
    /\ polling = polling_default
    /\ query = query_default
    /\ op = "start"
    /\ after_clear = FALSE
    /\ active = {}
    /\ before = NoTimes
    /\ streak = NoTimes
    /\ held = NoTimes
    /\ edited = FALSE
    /\ last_inputs = <<>>
    /\ asked = <<>>
    /\ ever_active = {}
    /\ events = <<>>
    /\ physical = {}
    /\ listed = <<>>
    /\ build = "wrapping"
    /\ iter = <<>>

EventNewWithControls ==
    /\ op = "start"
    /\ kind = "event"
    /\ event' = event_new_with_controls(pairs)
    /\ Called("new")
    /\ UNCHANGED <<kind, polling, query, streak, edited, pairs, events, physical, listed, build, iter>>

PollingNewWithControls ==
    /\ op = "start"
    /\ kind = "polling"
    /\ polling' = polling_new_with_controls(pairs)
    /\ Called("new")
    /\ UNCHANGED <<kind, event, query, streak, edited, pairs, events, physical, listed, build, iter>>

QueryNewWithControls ==
    /\ op = "start"
    /\ kind = "query"
    /\ query' = query_new_with_controls(pairs)
    /\ Called("new")
    /\ UNCHANGED <<kind, event, polling, streak, edited, pairs, events, physical, listed, build, iter>>

NextNew ==
    \/ EventNewWithControls
    \/ PollingNewWithControls
    \/ QueryNewWithControls

SpecNew == InitNew /\ [][NextNew]_vars

\* -------------------------------------------------------------- SpecBurst
\* An EventInputHandler whose configuration is not edited; events holds the
\* notifications of the current frame: those received since the update
\* before the last one, if update was called last, and those received since
\* the last update otherwise.

InitBurst ==
    /\ kind = "event"
    /\ \E ps \in PairSeqs : event = event_new_with_controls(ps)
    /\ polling = polling_default
    /\ query = query_default
    /\ InitHistory
    /\ pairs = <<>>
    /\ events = <<>>
    /\ physical = {}
    /\ listed = <<>>
    /\ build = "wrapping"
    /\ iter = <<>>

Notified(e) ==
    /\ op = "update" \/ Len(events) < MaxEvents
    /\ events' = IF op = "update" THEN <<e>> ELSE Append(events, e)

BurstOnInputDown(input) ==
    /\ Notified(<<"down", input>>)
    /\ DoEventOnInputDown(input)
    /\ UNCHANGED <<pairs, physical, listed, build, iter>>

BurstOnInputUp(input) ==
    /\ Notified(<<"up", input>>)
    /\ DoEventOnInputUp(input)
    /\ UNCHANGED <<pairs, physical, listed, build, iter>>

BurstUpdate ==
    /\ DoEventUpdate
    /\ events' = IF op = "update" THEN <<>> ELSE events
    /\ UNCHANGED <<pairs, physical, listed, build, iter>>

NextBurst ==
    \/ \E input \in Inputs : BurstOnInputDown(input)
    \/ \E input \in Inputs : BurstOnInputUp(input)
    \/ BurstUpdate

SpecBurst == InitBurst /\ [][NextBurst]_vars

\* --------------------------------------------------------------- SpecPair
\* A PollingInputHandler and a QueryInputHandler built from the same pairs.
\* Every frame the first is given a collection of inputs and the second the
\* predicate that accepts exactly the inputs of that collection;
\* clear_inputs is called on both.  The history is that of the
\* PollingInputHandler (kind = "polling").

\* The inputs that occur in a collection.
SetOf(seq) == {seq[n] : n \in 1..Len(seq)}

\* |input| pressed_inputs.contains(&input)
Accepts(pressed_inputs) == [i \in Inputs |-> i \in SetOf(pressed_inputs)]

InitPair ==
    /\ kind = "polling"
    /\ \E ps \in PairSeqs :
        /\ polling = polling_new_with_controls(ps)
        /\ query = query_new_with_controls(ps)
    /\ event = event_default
    /\ InitHistory
    /\ pairs = <<>>
    /\ events = <<>>
    /\ physical = {}
    /\ listed = <<>>
    /\ build = "wrapping"
    /\ iter \in IterOrders(DOMAIN query.control_config)

PairUpdate(pressed_inputs) ==
    /\ CanUpdate
    /\ \A c \in Controls : query_press_time(query, c) < MaxTime
    /\ \E order \in IterOrders(DOMAIN polling.control_config) :
        polling' = polling_update(polling, pressed_inputs, order)
    /\ query' = query_update(query, Accepts(pressed_inputs), iter)
    /\ Frame(polling_active(pressed_inputs), pressed_inputs,
             query_asked(query, Accepts(pressed_inputs), iter))
    /\ UNCHANGED <<kind, event, pairs, events, physical, listed, build, iter>>

PairClearInputs ==
    /\ polling' = polling_clear_inputs(polling)
    /\ query' = query_clear_inputs(query)
    /\ Called("clear_inputs")
    /\ streak' = NoTimes
    /\ UNCHANGED <<kind, event, edited, pairs, events, physical, listed, build, iter>>

NextPair ==
    \/ \E pressed_inputs \in InputSeqs : PairUpdate(pressed_inputs)
    \/ PairClearInputs

SpecPair == InitPair /\ [][NextPair]_vars

\* --------------------------------------------------------------- SpecList
\* An EventInputHandler whose owner also reads all_pressed().  listed holds
\* what the call yielded for as long as no other call has followed it.

InitList ==
    /\ kind = "event"
    /\ \E ps \in PairSeqs : event = event_new_with_controls(ps)
    /\ polling = polling_default
    /\ query = query_default
    /\ InitHistory
    /\ pairs = <<>>
    /\ events = <<>>
    /\ physical = {}
    /\ listed = <<>>
    /\ build = "wrapping"
    /\ iter \in IterOrders(DOMAIN event.control_config)

\* Another call has followed all_pressed.
Forgotten ==
    /\ listed' = <<>>
    /\ UNCHANGED <<pairs, events, physical, build>>

ListOnInputDown(input) == DoEventOnInputDown(input) /\ Forgotten /\ UNCHANGED iter

ListOnInputUp(input) == DoEventOnInputUp(input) /\ Forgotten /\ UNCHANGED iter

\* update(); of the history only op is kept.
ListUpdate ==
    /\ kind = "event"
    /\ CanUpdate
    /\ event' = event_update(event, iter)
    /\ op' = "update"
    /\ Forgotten
    /\ UNCHANGED <<kind, polling, query, after_clear, active, before, streak, held,
                   edited, last_inputs, asked, ever_active, iter>>

\* control_config_mut().insert(input, ctrl).  insert reserves room for one
\* more entry before it looks the key up, so every insert, also one of a key
\* the map holds and one of the value it holds, may rehash the map, which
\* can then iterate in any order.
ListConfigInsert(input, ctrl) ==
    /\ kind = "event"
    /\ event' = [event EXCEPT !.control_config = MapInsert(@, input, ctrl)]
    /\ iter' \in IterOrders(DOMAIN event'.control_config)
    /\ Called("control_config_mut")
    /\ edited' = (edited \/ event' # event)
    /\ Forgotten
    /\ UNCHANGED <<kind, polling, query, streak>>

\* control_config_mut().reserve(n): the entries stay, the map may rehash.
ListConfigReserve ==
    /\ kind = "event"
    /\ iter' \in IterOrders(DOMAIN event.control_config)
    /\ Called("control_config_mut")
    /\ Forgotten
    /\ UNCHANGED <<handlers, streak, edited>>

\* remove leaves the other entries where they are.
ListConfigRemove(input) ==
    /\ DoEventConfigRemove(input)
    /\ Forgotten
    /\ iter' = LET Stays(i) == i # input IN SelectSeq(iter, Stays)

\* all_pressed(&self), the iterator run to its end.
ListAllPressed ==
    /\ kind = "event"
    /\ listed' = event_all_pressed(event, iter)
    /\ Called("all_pressed")
    /\ UNCHANGED <<handlers, streak, edited, pairs, events, physical, build, iter>>

NextList ==
    \/ \E input \in Inputs : ListOnInputDown(input)
    \/ \E input \in Inputs : ListOnInputUp(input)
    \/ ListUpdate
    \/ \E input \in Inputs, ctrl \in Controls : ListConfigInsert(input, ctrl)
    \/ \E input \in Inputs : ListConfigRemove(input)
    \/ ListConfigReserve
    \/ ListAllPressed

SpecList == InitList /\ [][NextList]_vars

\* ----------------------------------------------------------- SpecPhysical
\* An EventInputHandler and a PollingInputHandler built from the same pairs
\* follow the same keys.  The first is told of every press and release, the
\* second is given, at every update, the inputs held at that moment.  The
\* history is that of the EventInputHandler (kind = "event").

InitPhysical ==
    /\ kind = "event"
    /\ \E ps \in PairSeqs :
        /\ event = event_new_with_controls(ps)
        /\ polling = polling_new_with_controls(ps)
    /\ query = query_default
    /\ InitHistory
    /\ pairs = <<>>
    /\ events = <<>>
    /\ physical = {}
    /\ listed = <<>>
    /\ build = "wrapping"
    /\ iter = <<>>

\* A key goes down: on_input_down(input).
PhysicalPress(input) ==
    /\ input \notin physical
    /\ physical' = physical \cup {input}
    /\ DoEventOnInputDown(input)
    /\ UNCHANGED <<pairs, events, listed, build, iter>>

\* A key goes up: on_input_up(input).
PhysicalRelease(input) ==
    /\ input \in physical
    /\ physical' = physical \ {input}
    /\ DoEventOnInputUp(input)
    /\ UNCHANGED <<pairs, events, listed, build, iter>>

\* The frame ends: update() on the first, update(held inputs) on the second.
PhysicalUpdate ==
    /\ CanUpdate
    /\ \A c \in Controls : polling_press_time(polling, c) < MaxTime
    /\ \E order \in IterOrders(DOMAIN event.control_config) :
        event' = event_update(event, order)
    /\ \E order \in IterOrders(DOMAIN polling.control_config) :
        polling' = polling_update(polling, SeqOf(physical), order)
    /\ Frame(event_active, SeqOf(physical), <<>>)
    /\ UNCHANGED <<kind, query, pairs, events, physical, listed, build, iter>>

NextPhysical ==
    \/ \E input \in Inputs : PhysicalPress(input)
    \/ \E input \in Inputs : PhysicalRelease(input)
    \/ PhysicalUpdate

SpecPhysical == InitPhysical /\ [][NextPhysical]_vars

\* --------------------------------------------------------------- SpecLong
\* A handler that is updated as often as its owner likes, past the largest
\* value of the press-time counter.  The crate does not fix the build
\* profile: with overflow checks (the default of a debug build) the `+= 1`
\* that overflows panics, without them (the default of a release build) it
\* wraps.  op = "panic" marks a run that update has ended with a panic.

InitLong ==
    /\ kind \in Kinds
    /\ \E ps \in PairSeqs :
        /\ event = IF kind = "event" THEN event_new_with_controls(ps) ELSE event_default
        /\ polling = IF kind = "polling" THEN polling_new_with_controls(ps)
                     ELSE polling_default
        /\ query = IF kind = "query" THEN query_new_with_controls(ps) ELSE query_default
    /\ InitHistory
    /\ pairs = <<>>
    /\ events = <<>>
    /\ physical = {}
    /\ listed = <<>>
    /\ build \in {"checked", "wrapping"}
    /\ iter = <<>>

\* What update records: whether it returned, and the controls it found active.
LongFrame(panicked, act) ==
    /\ op' = IF panicked THEN "panic" ELSE "update"
    /\ active' = act
    /\ UNCHANGED <<after_clear, before, streak, held, edited, last_inputs, asked,
                   ever_active, pairs, events, physical, listed, build, iter>>

LongOnInputDown(input) ==
    /\ op # "panic"
    /\ DoEventOnInputDown(input)
    /\ UNCHANGED <<pairs, events, physical, listed, build, iter>>

LongOnInputUp(input) ==
    /\ op # "panic"
    /\ DoEventOnInputUp(input)
    /\ UNCHANGED <<pairs, events, physical, listed, build, iter>>

LongEventUpdate ==
    /\ kind = "event"
    /\ op # "panic"
    /\ \E order \in IterOrders(DOMAIN event.control_config) :
        LET checked == checked_update_loop(
                           event.control_config, event.pressed_controls,
                           event.control_time, order)
        IN  IF build = "checked"
            THEN /\ event' = [event EXCEPT !.control_time = checked.control_time]
                 /\ LongFrame(checked.panicked, event_active)
            ELSE /\ event' = event_update(event, order)
                 /\ LongFrame(FALSE, event_active)
    /\ UNCHANGED <<kind, polling, query>>

LongPollingUpdate(pressed_inputs) ==
    /\ kind = "polling"
    /\ op # "panic"
    /\ \E order \in IterOrders(DOMAIN polling.control_config) :
        LET checked == checked_update_loop(
                           polling.control_config,
                           SetOf(polling_pressed_controls(polling, pressed_inputs)),
                           polling.control_time, order)
        IN  IF build = "checked"
            THEN /\ polling' = [polling EXCEPT !.control_time = checked.control_time]
                 /\ LongFrame(checked.panicked, polling_active(pressed_inputs))
            ELSE /\ polling' = polling_update(polling, pressed_inputs, order)
                 /\ LongFrame(FALSE, polling_active(pressed_inputs))
    /\ UNCHANGED <<kind, event, query>>

LongQueryUpdate(is_pressed) ==
    /\ kind = "query"
    /\ op # "panic"
    /\ \E order \in IterOrders(DOMAIN query.control_config) :
        LET checked == checked_update_loop(
                           query.control_config,
                           SetOf(query_pressed_controls(query, is_pressed, order)),
                           query.control_time, order)
        IN  IF build = "checked"
            THEN /\ query' = [query EXCEPT !.control_time = checked.control_time]
                 /\ LongFrame(checked.panicked, query_active(is_pressed))
            ELSE /\ query' = query_update(query, is_pressed, order)
                 /\ LongFrame(FALSE, query_active(is_pressed))
    /\ UNCHANGED <<kind, event, polling>>

NextLong ==
    \/ \E input \in Inputs : LongOnInputDown(input)
    \/ \E input \in Inputs : LongOnInputUp(input)
    \/ LongEventUpdate
    \/ \E pressed_inputs \in InputSeqs : LongPollingUpdate(pressed_inputs)
    \/ \E is_pressed \in [Inputs -> BOOLEAN] : LongQueryUpdate(is_pressed)

SpecLong == InitLong /\ [][NextLong]_vars

\* ----------------------------------------------------------------- claims

\* The inputs that occur in a sequence of pairs.
PairInputs(ps) == {ps[n][1] : n \in 1..Len(ps)}

\* C2 as claimed: new_with_controls keeps, for every input, the control of
\* the first pair with that input.
C2_FirstPairWins ==
    op = "new" =>
        /\ DOMAIN control_config = PairInputs(pairs)
        /\ \A n \in 1..Len(pairs) :
            (\A m \in 1..(n - 1) : pairs[m][1] # pairs[n][1]) =>
                control_config[pairs[n][1]] = pairs[n][2]

\* C2 as amended: new_with_controls keeps, for every input, the control of
\* the last pair with that input.
C2_LastPairWins ==
    op = "new" =>
        /\ DOMAIN control_config = PairInputs(pairs)
        /\ \A n \in 1..Len(pairs) :
            (\A m \in (n + 1)..Len(pairs) : pairs[m][1] # pairs[n][1]) =>
                control_config[pairs[n][1]] = pairs[n][2]

C2_Witness ==
    /\ op = "new"
    /\ \E m, n \in 1..Len(pairs) :
        /\ m < n
        /\ pairs[m][1] = pairs[n][1]
        /\ pairs[m][2] # pairs[n][2]
        /\ \A l \in (n + 1)..Len(pairs) : pairs[l][1] # pairs[n][1]
        /\ control_config[pairs[n][1]] = pairs[n][2]

\* C7: EventInputHandler: on_input_down(k), on_input_up(k), on_input_down(k)
\* for a mapped input k whose control has press time 0, then one update,
\* leave the control at press time 1.
C7_DownUpDown ==
    (kind = "event" /\ op = "update") =>
        \A k \in DOMAIN control_config :
            (/\ events = << <<"down", k>>, <<"up", k>>, <<"down", k>> >>
             /\ before[control_config[k]] = 0)
                => press_time(control_config[k]) = 1

\* C1: a configured control that has been active in N updates in a row, the
\* first of them starting at press time 0, has press time N, however many of
\* its inputs are configured or held.
C1_PressTimeIsStreak ==
    \A c \in Configured : streak[c] >= 1 => press_time(c) = streak[c]

\* C3: right after an update, clicked holds of a configured control exactly
\* when that update took it from press time 0 to active.
C3_ClickedIffJustActivated ==
    op = "update" =>
        \A c \in Configured : clicked(c) <=> (c \in active /\ before[c] = 0)

\* C4: a configured control that is not active in an update has press time
\* 0 right after it, is up and is not down, for however many updates in a
\* row (N >= 1) it was active before.
C4_ReleasedIsZero ==
    op = "update" =>
        \A c \in Configured :
            c \notin active => (press_time(c) = 0 /\ up(c) /\ ~down(c))

C4_Witness ==
    /\ op = "update"
    /\ \E c \in Configured :
        held[c] >= 2 /\ before[c] >= 2 /\ c \notin active /\ press_time(c) = 0

\* C5 as claimed: in every state, a control has press time 0 exactly when it
\* was not active in the last update.  (Before the first update every press
\* time is 0 and no control has been active, so the states before it satisfy
\* the statement too.)
C5_ZeroIffInactive ==
    \A c \in Controls : (press_time(c) = 0) <=> (c \notin active)

\* C5 as amended: right after an update, a control that has an input in the
\* configuration has press time 0 exactly when it was not active in that
\* update.
C5_ZeroIffInactiveAfterUpdate ==
    op = "update" =>
        \A c \in Configured : (press_time(c) = 0) <=> (c \notin active)

C5_Witness ==
    /\ op = "update"
    /\ edited
    /\ \E c \in Configured : c \in active /\ press_time(c) >= 1
    /\ \E c \in Configured : c \notin active /\ before[c] >= 1 /\ press_time(c) = 0

\* C6: PollingInputHandler with {A -> Up, B -> Up, C -> Down}, from
\* construction: update([A]) gives down(Up), press_time(Up) = 1 and not
\* down(Down); the next update([B]) gives press_time(Up) = 2; the next
\* update([]) gives press_time(Up) = 0.
UpUpDown == [i \in {"A", "B", "C"} |-> IF i = "C" THEN "Down" ELSE "Up"]

C6_UpUpDownScenario ==
    (kind = "polling" /\ control_config = UpUpDown /\ op = "update") =>
        /\ (last_inputs = <<"A">> /\ before = NoTimes) =>
                (down("Up") /\ press_time("Up") = 1 /\ ~down("Down"))
        /\ (last_inputs = <<"B">> /\ before["Up"] = 1) => press_time("Up") = 2
        /\ (last_inputs = <<>>) => press_time("Up") = 0

\* C8: clear_inputs followed by an update in which nothing is active leaves
\* every control, configured or not, at press time 0.
C8_ClearThenIdleUpdate ==
    (op = "update" /\ after_clear /\ active = {} /\ last_inputs = <<>>) =>
        \A c \in Controls : press_time(c) = 0

\* C9: after clear_inputs followed at once by update, no control is reported
\* active, whatever is held in that frame.
C9_ClearBeforeUpdate ==
    (op = "update" /\ after_clear) =>
        \A c \in Controls : press_time(c) = 0 /\ ~down(c)

\* C10 as claimed: in every state a control with no input in the
\* configuration has press time 0.
C10_UnmappedIsZero ==
    \A c \in Controls \ Configured : press_time(c) = 0

\* C10 as amended: as long as control_config_mut has not changed the
\* configuration, a control with no input in it has press time 0.
C10_UnmappedIsZeroUnedited ==
    ~edited => \A c \in Controls \ Configured : press_time(c) = 0

C10_Witness ==
    /\ ~edited
    /\ op = "update"
    /\ \E c \in Controls \ Configured : press_time(c) = 0
    /\ \E c \in Configured : c \in active /\ held[c] >= 1 /\ press_time(c) >= 2

\* C11 as claimed, its part on controls: a control that was never active or
\* has no input in the configuration reads press time 0, not down, up and
\* not clicked in every state.
C11_NeverActiveOrUnmappedIsZero ==
    \A c \in Controls :
        (c \notin ever_active \/ c \notin Configured) =>
            (press_time(c) = 0 /\ ~down(c) /\ up(c) /\ ~clicked(c))

\* C11 as amended: a control that was never active in an update reads press
\* time 0, not down, up and not clicked in every state; and on_input_down
\* and on_input_up of EventInputHandler, for an input that is not in the
\* configuration, change neither pressed_controls nor control_time.
C11_NeverActiveIsZero ==
    /\ [](\A c \in Controls \ ever_active :
            press_time(c) = 0 /\ ~down(c) /\ up(c) /\ ~clicked(c))
    /\ [][\A i \in Inputs :
            (/\ kind = "event"
             /\ i \notin DOMAIN event.control_config
             /\ EventOnInputDown(i) \/ EventOnInputUp(i))
                => (/\ event'.pressed_controls = event.pressed_controls
                    /\ event'.control_time = event.control_time)]_vars

\* on_input_down was called last and left pressed_controls empty, so its
\* input was not in the configuration; Up holds a press time, Down was never
\* active.
C11_Witness ==
    /\ kind = "event"
    /\ op = "on_input_down"
    /\ event.pressed_controls = {}
    /\ DOMAIN event.control_config # {}
    /\ DOMAIN event.control_config # Inputs
    /\ ~edited
    /\ "Down" \in Configured \ ever_active
    /\ press_time("Down") = 0
    /\ press_time("Up") >= 1

\* C12: QueryInputHandler::update calls is_pressed once for every input of
\* the configuration and for no other input, and right after it a configured
\* control has a press time of 1 or more exactly when is_pressed accepted
\* one of its inputs.
C12_AskedOncePerInput ==
    op = "update" =>
        /\ Len(asked) = Cardinality(DOMAIN query.control_config)
        /\ {asked[n][1] : n \in 1..Len(asked)} = DOMAIN query.control_config
        /\ \A c \in MapValues(query.control_config) :
            query_down(query, c) <=>
                \E n \in 1..Len(asked) :
                    asked[n][2] /\ query.control_config[asked[n][1]] = c

\* Two inputs of one control are asked about, one is accepted and one is
\* not, and the control counts as active.
C12_Witness ==
    /\ op = "update"
    /\ Len(asked) = 3
    /\ \E m, n \in 1..Len(asked) :
        /\ query.control_config[asked[m][1]] = query.control_config[asked[n][1]]
        /\ asked[m][2]
        /\ ~asked[n][2]
        /\ query_down(query, query.control_config[asked[m][1]])
    /\ \E c \in MapValues(query.control_config) : query_up(query, c)

\* C13: PollingInputHandler::update gives the same handler for a collection
\* as for the set of its inputs that are in the configuration: repeated
\* inputs, their order and inputs that are not mapped make no difference
\* (nor does the order in which the configuration is iterated).
C13_OnlyTheSetCounts ==
    [][\A s \in InputSeqs :
        PollingUpdate(s) =>
            \A order \in IterOrders(DOMAIN polling.control_config) :
                polling' = polling_update(
                    polling, SeqOf(SetOf(s) \cap DOMAIN polling.control_config),
                    order)]_vars

\* The last collection held a mapped input twice.
C13_Witness ==
    /\ kind = "polling"
    /\ op = "update"
    /\ Len(last_inputs) = 2
    /\ last_inputs[1] = last_inputs[2]
    /\ last_inputs[1] \in DOMAIN polling.control_config
    /\ DOMAIN polling.control_config # Inputs
    /\ polling_down(polling, polling.control_config[last_inputs[1]])
    /\ before[polling.control_config[last_inputs[1]]] >= 1

\* C14: only update and clear_inputs change a press time: on_input_down,
\* on_input_up and an edit of the configuration leave the press time of
\* every control as it was, so press times stay as they are for as long as
\* update is not called.
C14_OnlyUpdateChangesTimes ==
    [][op' \notin {"update", "clear_inputs"} =>
        \A c \in Controls : press_time(c)' = press_time(c)]_vars

\* After an update, on_input_down has put a control into pressed_controls
\* whose press time is still 0, and on_input_up has not yet been counted
\* for a control that reads 1 or more.
C14_Witness ==
    /\ kind = "event"
    /\ op = "on_input_down"
    /\ ~edited
    /\ ever_active # {}
    /\ \E c \in event.pressed_controls : event_press_time(event, c) = 0
    /\ \E c \in Controls \ event.pressed_controls : event_press_time(event, c) >= 1

\* The notifications of the frame that come after the n-th one bring no
\* on_input_down for an input of ctrl.
NoLaterDown(n, ctrl) ==
    \A m \in (n + 1)..Len(events) :
        ~ /\ events[m][1] = "down"
          /\ events[m][2] \in DOMAIN event.control_config
          /\ event.control_config[events[m][2]] = ctrl

\* C15: on_input_down(i) for a mapped input i adds config[i] to
\* pressed_controls, on_input_up(i) for a mapped input i removes config[i]
\* from it whatever else is held, and both do nothing for an unmapped input;
\* so a control whose last notification before update was an on_input_up is
\* inactive at that update and reads 0, even when on_input_down for another
\* of its inputs came earlier without an on_input_up.
C15_UpRemovesUnconditionally ==
    /\ [](op = "update" =>
            \A n \in 1..Len(events) :
                /\ events[n][1] = "up"
                /\ events[n][2] \in DOMAIN event.control_config
                /\ NoLaterDown(n, event.control_config[events[n][2]])
                => /\ event.control_config[events[n][2]] \notin active
                   /\ event_press_time(event, event.control_config[events[n][2]]) = 0
                   /\ event_up(event, event.control_config[events[n][2]]))
    /\ [][\A i \in Inputs :
            /\ BurstOnInputDown(i) =>
                 /\ event'.control_time = event.control_time
                 /\ event'.control_config = event.control_config
                 /\ event'.pressed_controls =
                        IF i \in DOMAIN event.control_config
                        THEN event.pressed_controls \cup {event.control_config[i]}
                        ELSE event.pressed_controls
            /\ BurstOnInputUp(i) =>
                 /\ event'.control_time = event.control_time
                 /\ event'.control_config = event.control_config
                 /\ event'.pressed_controls =
                        IF i \in DOMAIN event.control_config
                        THEN event.pressed_controls \ {event.control_config[i]}
                        ELSE event.pressed_controls]_vars

\* Two inputs of one control are pressed one after the other, the first is
\* released, and the update that follows finds the control inactive.
C15_Witness ==
    /\ op = "update"
    /\ Len(events) = 3
    /\ events[1][1] = "down" /\ events[2][1] = "down" /\ events[3][1] = "up"
    /\ events[1][2] # events[2][2]
    /\ events[3][2] = events[1][2]
    /\ {events[1][2], events[2][2]} \subseteq DOMAIN event.control_config
    /\ event.control_config[events[1][2]] = event.control_config[events[2][2]]
    /\ event.control_config[events[1][2]] \notin active
    /\ event_press_time(event, event.control_config[events[1][2]]) = 0

\* C16 as claimed: update leaves pressed_controls as it is; a control leaves
\* pressed_controls only in on_input_up or clear_inputs; and every update,
\* however many came before, returns and leaves the press time of every
\* control in pressed_controls larger than it was.
C16_PendingKeepsGrowing ==
    [][kind = "event" =>
        /\ op' \in {"update", "panic"} =>
             /\ op' = "update"
             /\ event'.pressed_controls = event.pressed_controls
             /\ \A c \in event.pressed_controls :
                    event_press_time(event', c) > event_press_time(event, c)
        /\ \A c \in event.pressed_controls :
             c \notin event'.pressed_controls =>
                 op' \in {"on_input_up", "clear_inputs"}]_vars

\* C17: all_pressed yields one triple per input of the configuration as it
\* is at the call, the triple of input i being
\* (i, config[i], press_time(config[i])), with 0 for a control that has no
\* entry in control_time; the call leaves the handler as it is, and a call
\* that follows it yields the same triples.
C17_AllPressedListsEveryInput ==
    /\ [](op = "all_pressed" =>
            /\ Len(listed) = Cardinality(DOMAIN event.control_config)
            /\ {listed[n][1] : n \in 1..Len(listed)} = DOMAIN event.control_config
            /\ \A n \in 1..Len(listed) :
                /\ listed[n][2] = event.control_config[listed[n][1]]
                /\ listed[n][3] = event_press_time(event, listed[n][2])
                /\ listed[n][2] \notin DOMAIN event.control_time => listed[n][3] = 0)
    /\ [][ListAllPressed =>
            /\ event' = event
            /\ (op = "all_pressed" => SetOf(listed') = SetOf(listed))]_vars

\* all_pressed is read after an edit of the configuration and after an
\* update: two inputs of one control are listed with a press time of 1 or
\* more, and an input whose control has no entry in control_time with 0.
C17_Witness ==
    /\ op = "all_pressed"
    /\ edited
    /\ \E n, m \in 1..Len(listed) :
        /\ n # m
        /\ listed[n][2] = listed[m][2]
        /\ listed[n][3] >= 1
    /\ \E n \in 1..Len(listed) :
        /\ listed[n][2] \notin DOMAIN event.control_time
        /\ listed[n][3] = 0

\* C18: a PollingInputHandler and a QueryInputHandler with the same
\* configuration, updated together, the first with a collection S and the
\* second with the predicate "is in S", and cleared together, hold the same
\* press-time table after every call, and so answer press_time alike.
C18_PollingEqualsQuery ==
    /\ polling.control_config = query.control_config
    /\ polling.control_time = query.control_time
    /\ \A c \in Controls :
        polling_press_time(polling, c) = query_press_time(query, c)

\* After paired updates both tables hold a control that was held for two
\* updates and one that has just been released.
C18_Witness ==
    /\ op = "update"
    /\ polling.control_time = query.control_time
    /\ \E c \in DOMAIN query.control_time :
        query.control_time[c] >= 2 /\ held[c] >= 1
    /\ \E c \in DOMAIN query.control_time :
        query.control_time[c] = 0 /\ before[c] >= 1

\* C19 as claimed: an EventInputHandler told of every press and release and
\* a PollingInputHandler given the held inputs at every update, built from
\* the same pairs, report the same press_time for every control after every
\* update.
C19_EventEqualsPolling ==
    op = "update" =>
        \A c \in Controls :
            event_press_time(event, c) = polling_press_time(polling, c)

\* C20 as claimed: clear_inputs of the PollingInputHandler and of the
\* QueryInputHandler leaves the configuration as it is and the handler equal
\* to one freshly built with that configuration, every control reading 0;
\* and in the update that follows, a control that is held starts again at 1
\* and is reported as clicked.
C20_ClearIsFresh ==
    /\ [][(kind \in {"polling", "query"} /\ op' = "clear_inputs") =>
            /\ control_config' = control_config
            /\ \A c \in Controls : press_time(c)' = 0
            /\ kind = "polling" =>
                 \E ps \in PairSeqs :
                    /\ Collect(ps) = polling.control_config
                    /\ polling' = polling_new_with_controls(ps)
            /\ kind = "query" =>
                 \E ps \in PairSeqs :
                    /\ Collect(ps) = query.control_config
                    /\ query' = query_new_with_controls(ps)]_vars
    /\ []((kind \in {"polling", "query"} /\ op = "update" /\ after_clear) =>
            \A c \in active : press_time(c) = 1 /\ clicked(c))

\* C21 as claimed: update always returns, and it leaves the press time of
\* every control it finds active larger than it was, however many updates
\* came before: the counter neither overflows into a panic nor wraps.
C21_NeverOverflows ==
    [][op' \in {"update", "panic"} =>
        /\ op' = "update"
        /\ \A c \in active' : press_time(c)' > press_time(c)]_vars

====
